---------------------------- MODULE Spec2Model ----------------------------
(* Swim workout generator engine (src/src/lib/workoutEngine.js) as a state *)
(* machine: one invocation of generateWorkout walks through its statements *)
(* in program order; the seeded mulberry32 generator is computed bit for    *)
(* bit on 32-bit words held as two 16-bit halves.                           *)
EXTENDS Integers, Sequences, FiniteSets, TLC

\* ---------------------------------------------------------------- bounds
\* Seeds a caller passes: 0..MaxSeed.
MaxSeed == 50
\* Values Math.floor(Math.random() * 2147483647) takes when no seed is passed: 0..MaxRandom.
MaxRandom == 1

\* ---------------------------------------------------------------- inputs
Durations == {30, 60, 90, 120}
\* Pace strings "M:SS", one character per element.
Paces == { <<"1", ":", "3", "0">>, <<"1", ":", "3", "3">>, <<"1", ":", "4", "5">>,
           <<"2", ":", "3", "0">> }
Units == {"meters", "yards"}
\* An absent property or argument (JavaScript undefined) of numeric type.
undefined == -1
Seeds == 0..MaxSeed
SeedArgs == Seeds \cup {undefined}

Truthy(v) == v # undefined /\ v # 0
Max(a, b) == IF a >= b THEN a ELSE b
Min(a, b) == IF a <= b THEN a ELSE b
Abs(a) == IF a < 0 THEN 0 - a ELSE a
\* Math.round(num / den) for num >= 0, den > 0: ties go up.
Round(num, den) == (2 * num + den) \div (2 * den)

RECURSIVE SumSeq(_)
SumSeq(s) == IF s = <<>> THEN 0 ELSE Head(s) + SumSeq(Tail(s))

\* ---------------------------------------------------------------- 32-bit words
\* A word is <<hi, lo>>, two 16-bit halves, so that no product leaves 31 bits.
W16 == 2 ^ 16

RECURSIVE XorN(_, _, _)
XorN(a, b, n) ==
  IF n = 0 THEN 0
  ELSE (((a % 2) + (b % 2)) % 2) + 2 * XorN(a \div 2, b \div 2, n - 1)

RECURSIVE OrN(_, _, _)
OrN(a, b, n) ==
  IF n = 0 THEN 0
  ELSE (IF a % 2 = 1 \/ b % 2 = 1 THEN 1 ELSE 0) + 2 * OrN(a \div 2, b \div 2, n - 1)

\* The two operations on 4-bit digits, tabulated.
Xor4 == [a \in 0..15 |-> [b \in 0..15 |-> XorN(a, b, 4)]]
Or4 == [a \in 0..15 |-> [b \in 0..15 |-> OrN(a, b, 4)]]
Digit16(a, i) == (a \div (16 ^ i)) % 16
Xor16(a, b) ==
  Xor4[Digit16(a, 0)][Digit16(b, 0)] + 16 * Xor4[Digit16(a, 1)][Digit16(b, 1)]
  + 256 * Xor4[Digit16(a, 2)][Digit16(b, 2)] + 4096 * Xor4[Digit16(a, 3)][Digit16(b, 3)]
Or16(a, b) ==
  Or4[Digit16(a, 0)][Digit16(b, 0)] + 16 * Or4[Digit16(a, 1)][Digit16(b, 1)]
  + 256 * Or4[Digit16(a, 2)][Digit16(b, 2)] + 4096 * Or4[Digit16(a, 3)][Digit16(b, 3)]
Xor32(x, y) == <<Xor16(x[1], y[1]), Xor16(x[2], y[2])>>
\* x | c for a constant c below 2^16
Or32(x, c) == <<x[1], Or16(x[2], c)>>
Add32(x, y) ==
  LET lo == x[2] + y[2]
      hi == x[1] + y[1] + lo \div W16
  IN <<hi % W16, lo % W16>>
\* x >>> k for 0 < k < 16
Shr32(x, k) == <<x[1] \div (2 ^ k), (x[1] % (2 ^ k)) * (2 ^ (16 - k)) + x[2] \div (2 ^ k)>>
\* the 32-bit product of two 16-bit numbers, as a word
Mul16(a, b) ==
  LET p1 == (a \div 256) * b
      p0 == (a % 256) * b
      mid == (p1 % 256) * 256 + p0
  IN <<p1 \div 256 + mid \div W16, mid % W16>>
\* Math.imul: the low 32 bits of the product
imul(x, y) ==
  LET ll == Mul16(x[2], y[2])
  IN <<(ll[1] + Mul16(x[1], y[2])[2] + Mul16(x[2], y[1])[2]) % W16, ll[2]>>
\* seed |= 0 on a non-negative integer below 2^31
ToInt32(n) == <<(n \div W16) % W16, n % W16>>

\* ---------------------------------------------------------------- seeded RNG
\* 0x6d2b79f5
Golden == <<27947, 31221>>
\* The closure variable `seed` after one more call of the generator.
Advance(s) == Add32(s, Golden)
RECURSIVE AdvanceN(_, _)
AdvanceN(s, n) == IF n = 0 THEN s ELSE AdvanceN(Advance(s), n - 1)
\* The 32-bit numerator x of the value x / 4294967296 a call returns, from the
\* closure variable after its increment.
Temper(s) ==
  LET t1 == imul(Xor32(s, Shr32(s, 15)), Or32(s, 1))
      t2 == Xor32(Add32(t1, imul(Xor32(t1, Shr32(t1, 7)), Or32(t1, 61))), t1)
  IN Xor32(t2, Shr32(t2, 14))
\* mulberry32(seed): the generator's state is the closure variable.
mulberry32(seed) == ToInt32(seed)
\* The k-th value (k >= 1) the generator in state s returns.
next(s, k) == Temper(AdvanceN(s, k))
createRng(seed) == mulberry32(seed)

\* floor(x * n / 2^32) for a word x and a small n >= 0
MulQ(x, n) == (x[1] * n + (x[2] * n) \div W16) \div W16
\* whether x * n is a multiple of 2^32
MulR0(x, n) == ((x[1] * n + (x[2] * n) \div W16) % W16 = 0) /\ ((x[2] * n) % W16 = 0)
\* The next n values the generator in state s returns.
Draws(s, n) == [k \in 1..n |-> next(s, k)]
\* rng.pick(arr): arr[Math.floor(next() * arr.length)], x the value drawn
pick(arr, x) == arr[MulQ(x, Len(arr)) + 1]
\* rng.chance(p) for p = num / den: next() < p, x the value drawn
chance(num, den, x) == MulQ(x, den) < num

\* rng.random() * total compared as weightedPick does: the least index i with
\* r - (w[1] + ... + w[i]) <= 0, that is x * total <= cum(i) * 2^32.
RECURSIVE WeightedIndex(_, _, _, _, _)
WeightedIndex(weights, x, total, i, cum) ==
  IF i > Len(weights) THEN Len(weights)
  ELSE LET c == cum + weights[i]
       IN IF MulQ(x, total) < c \/ (MulQ(x, total) = c /\ MulR0(x, total)) THEN i
          ELSE WeightedIndex(weights, x, total, i + 1, c)
\* Mutant: the weights are ignored.
weightedPickUniform(items, weights, x) == pick(items, x)
weightedPick(items, weights, x) ==
  items[WeightedIndex(weights, x, SumSeq(weights), 1, 0)]

\* ---------------------------------------------------------------- helpers
\* Number(field) of a non-numeric string, and arithmetic on it.
NaN == -2
Digits == <<"0", "1", "2", "3", "4", "5", "6", "7", "8", "9">>
IsDigit(c) == \E i \in 1..10 : Digits[i] = c
DigitVal(c) == (CHOOSE i \in 1..10 : Digits[i] = c) - 1
\* str.split(":"): the fields between the colons.
RECURSIVE Split(_, _)
Split(str, cur) ==
  IF str = <<>> THEN <<cur>>
  ELSE IF Head(str) = ":" THEN <<cur>> \o Split(Tail(str), <<>>)
  ELSE Split(Tail(str), Append(cur, Head(str)))
RECURSIVE DigitsValue(_, _)
DigitsValue(f, acc) ==
  IF f = <<>> THEN acc ELSE DigitsValue(Tail(f), 10 * acc + DigitVal(Head(f)))
\* Number(field) on strings of digits and colons: "" is 0, digits are their value.
Number(f) ==
  IF \A i \in 1..Len(f) : IsDigit(f[i]) THEN DigitsValue(f, 0) ELSE NaN
\* "1:30" -> 90
parsePace(str) ==
  LET parts == Split(str, <<>>)
      m == Number(parts[1])
      sec == IF Len(parts) >= 2 THEN Number(parts[2]) ELSE NaN
  IN IF m = NaN \/ sec = NaN THEN NaN ELSE m * 60 + sec

\* seconds -> "1:30" (whole seconds)
formatTime(secs) ==
  LET m == secs \div 60
      sec == secs % 60
  IN ToString(m) \o ":" \o (IF sec < 10 THEN "0" ELSE "") \o ToString(sec)

\* Mutant: rounds to the whole second only.
roundTo1(num, den) == Round(num, den)
\* Math.round(secs / 5) * 5 for secs = num / den
roundTo5(num, den) == Round(num, 5 * den) * 5

\* roundTo5(distance / 100 * pacePer100 + distance / 100 * restAdder)
calcInterval(distance, pacePer100, restAdder) ==
  roundTo5(distance * pacePer100 + distance * restAdder, 100)

\* ---------------------------------------------------------------- set items
NoStr == "undefined"
\* Mutant: an item made without a rest gets a rest of 10.
ItemRestDefault10(reps, distance, interval, rest, description, stroke, equipment) ==
  [reps |-> reps, distance |-> distance, interval |-> interval,
   rest |-> IF rest = undefined THEN 10 ELSE rest,
   description |-> description, stroke |-> stroke, equipment |-> equipment,
   isGroup |-> FALSE, items |-> <<>>]
Item(reps, distance, interval, rest, description, stroke, equipment) ==
  [reps |-> reps, distance |-> distance, interval |-> interval, rest |-> rest,
   description |-> description, stroke |-> stroke, equipment |-> equipment,
   isGroup |-> FALSE, items |-> <<>>]
Group(reps, distance, description, items) ==
  [reps |-> reps, distance |-> distance, interval |-> undefined, rest |-> undefined,
   description |-> description, stroke |-> NoStr, equipment |-> NoStr,
   isGroup |-> TRUE, items |-> items]
\* item.items is truthy: the property is present (an array)
HasItems(item) == item.items # <<>>

\* Seconds are kept in ten-thousandths: a pace factor of 1.15 is pace100 = 115
\* hundredths, and distance / 100 * pace is distance * pace100 ten-thousandths.
TimeScale == 100 * 100
\* Mutant: a rest is counted after the last repetition too.
calcSetDurationTrailingRest(set, pace100) ==
  IF ~Truthy(set.reps) \/ ~Truthy(set.distance) THEN 0
  ELSE IF Truthy(set.interval) THEN set.reps * set.interval * TimeScale
  ELSE IF Truthy(set.rest)
    THEN set.reps * (set.distance * pace100 + set.rest * TimeScale)
  ELSE set.reps * (set.distance * pace100)
calcSetDuration(set, pace100) ==
  IF ~Truthy(set.reps) \/ ~Truthy(set.distance) THEN 0
  ELSE IF Truthy(set.interval) THEN set.reps * set.interval * TimeScale
  ELSE IF Truthy(set.rest)
    THEN set.reps * (set.distance * pace100 + set.rest * TimeScale) - set.rest * TimeScale
  ELSE set.reps * (set.distance * pace100)

RECURSIVE groupDistance(_)
groupDistance(items) ==
  IF items = <<>> THEN 0
  ELSE LET item == Head(items)
       IN (IF HasItems(item) THEN groupDistance(item.items)
           ELSE (IF Truthy(item.reps) THEN item.reps ELSE 1)
                * (IF Truthy(item.distance) THEN item.distance ELSE 0))
          + groupDistance(Tail(items))

RECURSIVE groupDuration(_, _)
groupDuration(items, pace100) ==
  IF items = <<>> THEN 0
  ELSE LET item == Head(items)
       IN (IF HasItems(item) THEN groupDuration(item.items, pace100)
           ELSE calcSetDuration(item, pace100))
          + groupDuration(Tail(items), pace100)

\* ---------------------------------------------------------------- templates
\* A template gets (targetDist, pace, u): u holds the values its generator returns
\* next, in order. It yields the set items and the number of draws it made.
Made(items, draws) == [items |-> items, draws |-> draws]

\* -------- warmup
warmupSimpleFree(targetDist, pace, u) ==
  Made(<<Item(1, Min(targetDist, 400), undefined, 0, "Easy free", "free", NoStr)>>, 0)

warmupMixed(targetDist, pace, u) ==
  LET half == Min(Round(targetDist, 100) * 50, 300)
  IN Made(<<Item(1, half, undefined, 0, "Easy free", "free", NoStr),
            Item(1, half, undefined, 0, "Easy choice stroke", "choice", NoStr)>>, 0)

warmupSKPS(targetDist, pace, u) ==
  LET leg == Min(Round(targetDist, 200) * 50, 200)
  IN IF leg < 100 THEN warmupSimpleFree(targetDist, pace, u)
     ELSE Made(<<Item(1, leg, undefined, 15, "Swim free", "free", NoStr),
                 Item(1, leg, undefined, 15, "Kick", "free", "kickboard"),
                 Item(1, leg, undefined, 15, "Pull", "free", "pull"),
                 Item(1, leg, undefined, 0, "Swim free", "free", NoStr)>>, 0)

warmupBuildReps(targetDist, pace, u) ==
  LET n == Min(Max(Round(targetDist, 100), 3), 6)
      interval == calcInterval(100, pace, 15)
  IN Made(<<Item(n, 100, interval, undefined, "Build (easy -> fast)", "free", NoStr)>>, 0)

warmupIMOrder(targetDist, pace, u) ==
  LET freeDist == Min(Round(targetDist, 100) * 50, 200)
      n == Min(4, Round(targetDist - freeDist, 50))
      interval == calcInterval(50, pace, 20)
  IN IF n < 4 THEN warmupMixed(targetDist, pace, u)
     ELSE Made(<<Item(1, freeDist, undefined, 15, "Easy free", "free", NoStr),
                 Item(4, 50, interval, undefined, "IM order (fly, back, breast, free)",
                      "IM", NoStr)>>, 0)

WARMUP_TEMPLATES ==
  <<"warmupSimpleFree", "warmupMixed", "warmupSKPS", "warmupBuildReps", "warmupIMOrder">>

warmupTemplate(name, targetDist, pace, u) ==
  CASE name = "warmupSimpleFree" -> warmupSimpleFree(targetDist, pace, u)
    [] name = "warmupMixed" -> warmupMixed(targetDist, pace, u)
    [] name = "warmupSKPS" -> warmupSKPS(targetDist, pace, u)
    [] name = "warmupBuildReps" -> warmupBuildReps(targetDist, pace, u)
    [] name = "warmupIMOrder" -> warmupIMOrder(targetDist, pace, u)

\* -------- main set
mainStraight(targetDist, pace, u) ==
  LET dist == weightedPick(<<100, 150, 200, 300, 400>>, <<2, 2, 4, 3, 2>>, u[1])
      reps == Max(2, Round(targetDist, dist))
      interval == calcInterval(dist, pace, 10)
      descriptors == pick(<<"Hold pace", "Steady effort", "Strong & consistent">>, u[2])
  IN Made(<<Item(reps, dist, interval, undefined, "Free - " \o descriptors, "free", NoStr)>>, 2)

mainDescend(targetDist, pace, u) ==
  LET dist == pick(<<100, 150, 200>>, u[1])
      reps == Max(4, Min(10, Round(targetDist, dist)))
      interval == calcInterval(dist, pace, 12)
      finalReps == IF reps % 2 = 0 THEN reps ELSE reps - 1
  IN Made(<<Item(finalReps, dist, interval, undefined,
                 "Free - Descend 1-" \o ToString(finalReps), "free", NoStr)>>, 1)

LadderItems(steps, plain) ==
  [j \in 1..Len(steps) |->
     Item(1, steps[j], undefined, roundTo5(1500 + steps[j] * 5, 100),
          IF plain
            THEN (IF j = 1 THEN "Free - ease into it"
                  ELSE IF j = Len(steps) THEN "Free - strong finish"
                  ELSE "Free - settle in")
            ELSE (IF steps[j] = steps[Len(steps)] THEN "Free - strong finish"
                  ELSE "Free - build through the ladder"),
          "free", NoStr)]

mainLadder(targetDist, pace, u) ==
  LET steps == pick(<< <<100, 200, 300, 400>>, <<100, 200, 300, 400, 500>>,
                       <<200, 300, 400, 500>>, <<100, 200, 300, 200, 100>> >>, u[1])
      ladderTotal == SumSeq(steps)
      remaining == targetDist - ladderTotal
      repDist == pick(<<100, 200>>, u[2])
      repCount == Max(2, Round(remaining, repDist))
      repInterval == calcInterval(repDist, pace, 10)
  IN IF 10 * ladderTotal < targetDist * 6
       THEN Made(Append(LadderItems(steps, FALSE),
                        Item(repCount, repDist, repInterval, undefined,
                             "Free - hold best pace", "free", NoStr)), 2)
       ELSE Made(LadderItems(steps, TRUE), 1)

\* The first of `cands` whose total is closest to targetDist (strict <).
RECURSIVE Closest(_, _, _, _, _)
Closest(cands, totals, targetDist, i, best) ==
  IF i > Len(cands) THEN cands[best]
  ELSE Closest(cands, totals, targetDist, i + 1,
               IF Abs(totals[i] - targetDist) < Abs(totals[best] - targetDist)
                 THEN i ELSE best)

mainPyramid(targetDist, pace, u) ==
  LET pyramids == << <<50, 100, 150, 200, 150, 100, 50>>,
                     <<100, 200, 300, 400, 300, 200, 100>>,
                     <<100, 200, 300, 200, 100>>,
                     <<50, 100, 200, 300, 200, 100, 50>> >>
      totals == [i \in 1..Len(pyramids) |-> SumSeq(pyramids[i])]
      best == Closest(pyramids, totals, targetDist, 1, 1)
  IN Made([i \in 1..Len(best) |->
             Item(1, best[i], undefined, roundTo5(1000 + best[i] * 5, 100),
                  IF 2 * (i - 1) < Len(best) THEN "Free - build up"
                  ELSE "Free - bring it home", "free", NoStr)], 0)

mainNegSplit(targetDist, pace, u) ==
  LET dist == pick(<<200, 300, 400>>, u[1])
      reps == Max(3, Round(targetDist, dist))
      interval == calcInterval(dist, pace, 12)
  IN Made(<<Item(reps, dist, interval, undefined, "Free - negative split each",
                 "free", NoStr)>>, 1)

mainPullSet(targetDist, pace, u) ==
  LET dist == pick(<<200, 300, 400>>, u[1])
      reps == Max(3, Round(targetDist, dist))
      interval == calcInterval(dist, pace, 10)
      descriptor == pick(<<"Descend 1-" \o ToString(reps), "Negative split each",
                           "Build within each", "Hold strong pace">>, u[2])
  IN Made(<<Item(reps, dist, interval, undefined, "Pull - " \o descriptor,
                 "free", "pull")>>, 2)

mainMixedGear(targetDist, pace, u) ==
  LET swimDist == pick(<<200, 300>>, u[1])
      pullDist == pick(<<200, 300>>, u[2])
      kickDist == pick(<<100, 200>>, u[3])
      rounds == Max(2, Round(targetDist, swimDist + pullDist + kickDist))
      swimInterval == calcInterval(swimDist, pace, 10)
      pullInterval == calcInterval(pullDist, pace, 10)
      kickRest == roundTo5(kickDist * pace * 3, 1000)
  IN Made(<<Group(rounds, swimDist + pullDist + kickDist,
                  ToString(rounds) \o "x through:",
                  <<Item(1, swimDist, swimInterval, undefined, "Swim free - strong",
                         "free", NoStr),
                    Item(1, pullDist, pullInterval, undefined, "Pull free", "free", "pull"),
                    Item(1, kickDist, undefined, kickRest, "Kick choice", "choice",
                         "kickboard")>>)>>, 3)

\* The three formats of mainIMSet; the format itself is the template's first draw.
IMRepeats(td, pace, u) ==
  LET dist == pick(<<100, 200>>, u[2])
      reps == Max(4, Round(td, dist))
      finalReps == Min(reps, IF dist = 200 THEN 8 ELSE 12)
      interval == calcInterval(dist, pace, 15)
  IN Made(<<Item(finalReps, dist, interval, undefined, "IM", "IM", NoStr)>>, 2)

IMBroken(td, pace, u) ==
  LET dist == pick(<<50, 100>>, u[2])
      reps == Max(2, Round(td, dist * 4))
      interval == calcInterval(dist, pace, 15)
  IN Made(<<Item(reps, dist, interval, undefined, "Fly", "fly", NoStr),
            Item(reps, dist, interval, undefined, "Back", "back", NoStr),
            Item(reps, dist, interval, undefined, "Breast", "breast", NoStr),
            Item(reps, dist, interval, undefined, "Free - fast", "free", NoStr)>>, 2)

IMLadder(td, pace, u) ==
  LET interval100 == calcInterval(100, pace, 15)
      interval200 == calcInterval(200, pace, 15)
  IN Made(<<Item(1, 100, interval100, undefined, "IM", "IM", NoStr),
            Item(1, 200, interval200, undefined, "IM", "IM", NoStr),
            Item(2, 100, interval100, undefined, "IM", "IM", NoStr)>>, 1)

mainIMSet(targetDist, pace, u) ==
  LET format == pick(<<"repeats", "broken", "ladder">>, u[1])
  IN CASE format = "repeats" -> IMRepeats(targetDist, pace, u)
       [] format = "broken" -> IMBroken(targetDist, pace, u)
       [] format = "ladder" -> IMLadder(targetDist, pace, u)

mainBrokenSwim(targetDist, pace, u) ==
  LET raceDist == pick(<<400, 500, 800>>, u[1])
      breakDist == pick(<<100, 50>>, u[2])
      pieces == raceDist \div breakDist
      rest == 10
      remaining == targetDist - raceDist
      first == Item(pieces, breakDist, undefined, rest,
                    "Broken " \o ToString(raceDist) \o " free - race pace, "
                      \o ToString(rest) \o "s rest between", "free", NoStr)
      extraDist == pick(<<100, 200>>, u[3])
      extraReps == Max(2, Round(remaining, extraDist))
      interval == calcInterval(extraDist, pace, 10)
  IN IF remaining > 200
       THEN Made(<<first, Item(extraReps, extraDist, interval, undefined,
                               "Free - easy-to-moderate", "free", NoStr)>>, 3)
       ELSE Made(<<first>>, 2)

ComboTotal(c) == SumSeq([i \in 1..Len(c) |-> c[i][1] * c[i][2]])

mainCombo(targetDist, pace, u) ==
  LET combos == << << <<1, 400>>, <<2, 200>>, <<4, 100>> >>,
                   << <<1, 400>>, <<2, 200>>, <<4, 100>>, <<4, 50>> >>,
                   << <<1, 300>>, <<2, 200>>, <<3, 100>> >>,
                   << <<2, 400>>, <<4, 200>> >>,
                   << <<1, 500>>, <<5, 100>> >>,
                   << <<2, 300>>, <<3, 200>>, <<6, 50>> >> >>
      totals == [i \in 1..Len(combos) |-> ComboTotal(combos[i])]
      best == Closest(combos, totals, targetDist, 1, 1)
      descriptors == <<"Free - settle into pace", "Free - hold steady",
                       "Free - pick it up", "Free - fast finish">>
  IN Made([i \in 1..Len(best) |->
             Item(best[i][1], best[i][2], calcInterval(best[i][2], pace, 10), undefined,
                  descriptors[Min(i, Len(descriptors))], "free", NoStr)], 0)

mainFinsSet(targetDist, pace, u) ==
  LET swimDist == pick(<<200, 300>>, u[1])
      finsDist == pick(<<100, 200>>, u[2])
      swimReps == Max(2, Round(targetDist * 6, 10 * swimDist))
      finsReps == Max(2, Round(targetDist * 4, 10 * finsDist))
      swimInterval == calcInterval(swimDist, pace, 10)
      finsInterval == calcInterval(finsDist, pace, 5)
  IN Made(<<Item(swimReps, swimDist, swimInterval, undefined, "Free - strong pace",
                 "free", NoStr),
            Item(finsReps, finsDist, finsInterval, undefined, "Free with fins - fast!",
                 "free", "fins")>>, 2)

MAIN_SET_TEMPLATES ==
  <<[fn |-> "mainStraight", weight |-> 4], [fn |-> "mainDescend", weight |-> 4],
    [fn |-> "mainLadder", weight |-> 3], [fn |-> "mainPyramid", weight |-> 2],
    [fn |-> "mainNegSplit", weight |-> 3], [fn |-> "mainPullSet", weight |-> 3],
    [fn |-> "mainMixedGear", weight |-> 2], [fn |-> "mainIMSet", weight |-> 2],
    [fn |-> "mainBrokenSwim", weight |-> 2], [fn |-> "mainCombo", weight |-> 3],
    [fn |-> "mainFinsSet", weight |-> 2]>>

mainTemplate(name, targetDist, pace, u) ==
  CASE name = "mainStraight" -> mainStraight(targetDist, pace, u)
    [] name = "mainDescend" -> mainDescend(targetDist, pace, u)
    [] name = "mainLadder" -> mainLadder(targetDist, pace, u)
    [] name = "mainPyramid" -> mainPyramid(targetDist, pace, u)
    [] name = "mainNegSplit" -> mainNegSplit(targetDist, pace, u)
    [] name = "mainPullSet" -> mainPullSet(targetDist, pace, u)
    [] name = "mainMixedGear" -> mainMixedGear(targetDist, pace, u)
    [] name = "mainIMSet" -> mainIMSet(targetDist, pace, u)
    [] name = "mainBrokenSwim" -> mainBrokenSwim(targetDist, pace, u)
    [] name = "mainCombo" -> mainCombo(targetDist, pace, u)
    [] name = "mainFinsSet" -> mainFinsSet(targetDist, pace, u)

\* -------- cooldown
cooldownEasy(targetDist, pace, u) ==
  Made(<<Item(1, Min(targetDist, 400), undefined, 0, "Easy free", "free", NoStr)>>, 0)

cooldownMixed(targetDist, pace, u) ==
  LET half == Min(Round(targetDist, 100) * 50, 200)
  IN IF half < 50 THEN cooldownEasy(targetDist, pace, u)
     ELSE Made(<<Item(1, half, undefined, 0, "Easy backstroke", "back", NoStr),
                 Item(1, half, undefined, 0, "Easy free", "free", NoStr)>>, 0)

cooldownLoosen(targetDist, pace, u) ==
  LET n == Max(2, Min(4, Round(targetDist, 50)))
  IN Made(<<Item(n, 50, undefined, 10, "Easy choice - loosen up", "choice", NoStr)>>, 0)

COOLDOWN_TEMPLATES == <<"cooldownEasy", "cooldownMixed", "cooldownLoosen">>

cooldownTemplate(name, targetDist, pace, u) ==
  CASE name = "cooldownEasy" -> cooldownEasy(targetDist, pace, u)
    [] name = "cooldownMixed" -> cooldownMixed(targetDist, pace, u)
    [] name = "cooldownLoosen" -> cooldownLoosen(targetDist, pace, u)

\* -------- kick / pull pre-set
presetKick(targetDist, pace, u) ==
  LET dist == pick(<<50, 100>>, u[1])
      reps == Max(4, Round(targetDist, dist))
      rest == roundTo5(dist * pace + 4000, 400)
  IN Made(<<Item(reps, dist, undefined, rest,
                 pick(<<"Kick - moderate", "Kick - build each",
                        "Kick - descend 1-" \o ToString(reps)>>, u[2]),
                 "free", "kickboard")>>, 2)

presetPull(targetDist, pace, u) ==
  LET dist == pick(<<100, 200>>, u[1])
      reps == Max(3, Round(targetDist, dist))
      interval == calcInterval(dist, pace, 10)
  IN Made(<<Item(reps, dist, interval, undefined,
                 pick(<<"Pull - steady", "Pull - build", "Pull - negative split each">>, u[2]),
                 "free", "pull")>>, 2)

presetDrill(targetDist, pace, u) ==
  LET drills == <<"Catch-up drill / swim by 25", "Fingertip drag / swim by 25",
                  "Fist drill / swim by 25">>
      reps == Max(4, Round(targetDist, 50))
      interval == calcInterval(50, pace, 15)
  IN Made(<<Item(reps, 50, interval, undefined, pick(drills, u[1]), "free", NoStr)>>, 1)

PRESET_TEMPLATES == <<"presetKick", "presetPull", "presetDrill">>

presetTemplate(name, targetDist, pace, u) ==
  CASE name = "presetKick" -> presetKick(targetDist, pace, u)
    [] name = "presetPull" -> presetPull(targetDist, pace, u)
    [] name = "presetDrill" -> presetDrill(targetDist, pace, u)

\* ---------------------------------------------------------------- formatting
NullStr == "null"
\* Mutant: only the interval gets a display string.
RECURSIVE formatSetNoRest(_)
formatSetNoRest(items) ==
  [i \in 1..Len(items) |->
     LET item == items[i]
     IN IF item.isGroup /\ HasItems(item)
          THEN [reps |-> item.reps, distance |-> item.distance,
                interval |-> item.interval, rest |-> item.rest,
                description |-> item.description, stroke |-> item.stroke,
                equipment |-> item.equipment, isGroup |-> item.isGroup,
                items |-> formatSetNoRest(item.items),
                intervalDisplay |-> NoStr, restDisplay |-> NoStr]
          ELSE [reps |-> item.reps, distance |-> item.distance,
                interval |-> item.interval, rest |-> item.rest,
                description |-> item.description, stroke |-> item.stroke,
                equipment |-> item.equipment, isGroup |-> item.isGroup,
                items |-> item.items,
                intervalDisplay |-> IF Truthy(item.interval) THEN formatTime(item.interval)
                                    ELSE NullStr,
                restDisplay |-> NullStr]]
RECURSIVE formatSet(_)
formatSet(items) ==
  [i \in 1..Len(items) |->
     LET item == items[i]
     IN IF item.isGroup /\ HasItems(item)
          THEN [reps |-> item.reps, distance |-> item.distance,
                interval |-> item.interval, rest |-> item.rest,
                description |-> item.description, stroke |-> item.stroke,
                equipment |-> item.equipment, isGroup |-> item.isGroup,
                items |-> formatSet(item.items),
                intervalDisplay |-> NoStr, restDisplay |-> NoStr]
          ELSE [reps |-> item.reps, distance |-> item.distance,
                interval |-> item.interval, rest |-> item.rest,
                description |-> item.description, stroke |-> item.stroke,
                equipment |-> item.equipment, isGroup |-> item.isGroup,
                items |-> item.items,
                intervalDisplay |-> IF Truthy(item.interval) THEN formatTime(item.interval)
                                    ELSE NullStr,
                restDisplay |-> IF Truthy(item.rest) THEN formatTime(item.rest)
                                ELSE NullStr]]

names ==
  <<"The Engine Builder", "Steady State", "Lane Burner", "Blue Line Special",
    "The Long Game", "Chlorine Dreams", "Pace Machine", "Distance Eater", "The Grind",
    "Deep End Session", "Tempo Town", "The Yardage Monster", "Clock Watcher",
    "Pool Shark Session", "The Endless Lane">>

\* ---------------------------------------------------------------- generateWorkout
VARIABLES
  pc,        \* the statement generateWorkout is at
  args,      \* { duration, pace, unit, seed }
  rng,       \* the closure variable of the call's generator, as a word
  paceSec,
  alloc,     \* totalTargetDist, warmupTarget, cooldownTarget, hasPreset, presetTarget, mainTarget
  chosen,    \* warmupTemplate, presetTemplate, mainTemplate, cooldownTemplate
  warmup, preset, mainSet, cooldown,
  totals,    \* warmupDist .. totalDist, totalDurSec (ten-thousandths)
  out,       \* <<the returned workout>>, or <<>> before the return
  prev,      \* <<what the previous call with the same arguments returned>>, or <<>>
  order,     \* the steps of the current call, in the order they ran
  seedUsed,  \* the number the call's generator was constructed from
  other,     \* <<the locals of a second call that is not running now>>, or <<>>
  overlap    \* control passed between two calls that were both under way

\* IdeaShuffler (src/src/components/IdeaShuffler.jsx): the state and refs of the
\* component, its timers and the additions that await their title.
VARIABLES
  ideas,        \* useState: the list of ideas
  currentIdx,   \* useState: index of the idea shown, from 0, or -1
  displayText,  \* useState: the text on the card
  flipClass,    \* useState: "flip-down", "flip-up" or ""
  flippingRef,  \* useRef: a flip is in progress
  timers,       \* the callbacks setTimeout holds, in the order they fire
  pendingAdds   \* the texts whose handleAdd awaits condenseText

\* WTWTW (src/src/components/WTWTW.jsx): the events of one day and the pick.
VARIABLES
  dayEvents,    \* the argument of pickEventForDay
  picked        \* <<what pickEventForDay returned>>, or <<>> before the call

engineVars == <<pc, args, rng, paceSec, alloc, chosen, warmup, preset, mainSet, cooldown,
                totals, out, prev, order, seedUsed, other, overlap>>
shufflerVars == <<ideas, currentIdx, displayText, flipClass, flippingRef, timers, pendingAdds>>
pickVars == <<dayEvents, picked>>
vars == <<engineVars, shufflerVars, pickVars>>

\* The page of the workout generator holds neither of the other components.
ShufflerUnmounted ==
  /\ ideas = <<>> /\ currentIdx = 0 - 1 /\ displayText = "" /\ flipClass = ""
  /\ flippingRef = FALSE /\ timers = <<>> /\ pendingAdds = <<>>
NoScoreboard == dayEvents = <<>> /\ picked = <<>>

\* Mutant: a smaller fraction for a pool in meters.
effectiveSwimFractionByUnit == IF args.unit = "meters" THEN 71 ELSE 78
\* 0.78, in hundredths
effectiveSwimFraction == 78

Inputs == [duration : Durations, pace : Paces, unit : Units, seed : SeedArgs]

NoAlloc == [totalTargetDist |-> 0, warmupTarget |-> 0, cooldownTarget |-> 0,
            hasPreset |-> FALSE, presetTarget |-> 0, mainTarget |-> 0]
NoChosen == [warmup |-> NoStr, preset |-> NoStr, main |-> NoStr, cooldown |-> NoStr]
NoTotals == [warmupDist |-> 0, presetDist |-> 0, mainDist |-> 0, cooldownDist |-> 0,
             totalDist |-> 0, totalDurSec |-> 0]

\* The locals of a call that has just been entered with arguments a.
EnteredWith(a, p) ==
  /\ pc' = "seedAndParse"
  /\ args' = a
  /\ rng' = <<0, 0>>
  /\ paceSec' = 0
  /\ alloc' = NoAlloc
  /\ chosen' = NoChosen
  /\ warmup' = <<>> /\ preset' = <<>> /\ mainSet' = <<>> /\ cooldown' = <<>>
  /\ totals' = NoTotals
  /\ out' = <<>>
  /\ prev' = p
  /\ order' = <<>>
  /\ seedUsed' = undefined
  /\ other' = other
  /\ overlap' = FALSE
  /\ UNCHANGED <<shufflerVars, pickVars>>
\* The locals of a call that has just been entered with the arguments of the last.
Entered(p) == EnteredWith(args, p)

Fresh(inputs) ==
  /\ pc = "seedAndParse"
  /\ args \in inputs
  /\ rng = <<0, 0>>
  /\ paceSec = 0
  /\ alloc = NoAlloc
  /\ chosen = NoChosen
  /\ warmup = <<>> /\ preset = <<>> /\ mainSet = <<>> /\ cooldown = <<>>
  /\ totals = NoTotals
  /\ out = <<>>
  /\ prev = <<>>
  /\ order = <<>>
  /\ seedUsed = undefined
InitFrom(inputs) ==
  /\ Fresh(inputs)
  /\ other = <<>>
  /\ overlap = FALSE
  /\ ShufflerUnmounted /\ NoScoreboard
Init == InitFrom(Inputs)

\* Mutant: the seed argument is ignored.
SeedAlwaysRandom(seed, r) == r
\* seed ?? Math.floor(Math.random() * 2147483647)
SeedOrRandom(seed, r) == IF seed = undefined THEN r ELSE seed

SeedAndParse ==
  /\ pc = "seedAndParse"
  /\ \E r \in 0..MaxRandom :
       /\ seedUsed' = SeedOrRandom(args.seed, r)
       /\ rng' = createRng(seedUsed')
  /\ paceSec' = parsePace(args.pace)
  /\ pc' = "allocate"
  /\ order' = Append(order, "SeedAndParse")
  /\ UNCHANGED <<args, alloc, chosen, warmup, preset, mainSet, cooldown, totals, out, prev, other, overlap,
               shufflerVars, pickVars>>

\* Math.round(totalTimeSec * 0.78 / (paceSec / 100)), then to the nearest 50
TotalTargetDist(duration, pace) ==
  Round(Round(duration * 60 * effectiveSwimFraction, pace), 50) * 50
\* Math.round(total * pct / 100 / 50) * 50
Share(total, pct) == Round(total * pct, 50 * 100) * 50
\* Mutant: the percentage is divided by 100 twice.
WarmupTargetPerTenThousand(total) == Round(total * 18, 50 * 100 * 100) * 50
WarmupTarget(total) == Share(total, 18)
\* Mutant: the floor of 200 is dropped.
CooldownTargetNoFloor(total) == Share(total, 8)
CooldownTarget(total) == Max(200, Share(total, 8))
PresetTarget(total, hasPreset) == IF hasPreset THEN Share(total, 12) ELSE 0
HasPreset(duration, x) ==
  IF duration > 30 THEN chance(3, 5, x) ELSE chance(1, 4, x)

Allocate ==
  /\ pc = "allocate"
  /\ \E u \in {Draws(rng, 1)} :
       LET total == TotalTargetDist(args.duration, paceSec)
           w == WarmupTarget(total)
           c == CooldownTarget(total)
           hp == HasPreset(args.duration, u[1])
           p == PresetTarget(total, hp)
       IN alloc' = [totalTargetDist |-> total, warmupTarget |-> w, cooldownTarget |-> c,
                    hasPreset |-> hp, presetTarget |-> p, mainTarget |-> total - w - c - p]
  /\ rng' = AdvanceN(rng, 1)
  /\ pc' = "warmup"
  /\ order' = Append(order, "Allocate")
  /\ UNCHANGED <<args, paceSec, chosen, warmup, preset, mainSet, cooldown, totals, out, prev, seedUsed, other, overlap,
               shufflerVars, pickVars>>

GenerateWarmup ==
  /\ pc = "warmup"
  /\ \E u \in {Draws(rng, 1)} :
       \E t \in {pick(WARMUP_TEMPLATES, u[1])} :
         \E made \in {warmupTemplate(t, alloc.warmupTarget, paceSec, Tail(u))} :
           /\ chosen' = [chosen EXCEPT !.warmup = t]
           /\ warmup' = made.items
           /\ rng' = AdvanceN(rng, 1 + made.draws)
  /\ pc' = "preset"
  /\ order' = Append(order, "GenerateWarmup")
  /\ UNCHANGED <<args, paceSec, alloc, preset, mainSet, cooldown, totals, out, prev, seedUsed, other, overlap,
               shufflerVars, pickVars>>

GeneratePreset ==
  /\ pc = "preset"
  /\ IF alloc.hasPreset
       THEN \E u \in {Draws(rng, 3)} :
              \E t \in {pick(PRESET_TEMPLATES, u[1])} :
                \E made \in {presetTemplate(t, alloc.presetTarget, paceSec, Tail(u))} :
                  /\ chosen' = [chosen EXCEPT !.preset = t]
                  /\ preset' = made.items
                  /\ rng' = AdvanceN(rng, 1 + made.draws)
       ELSE /\ preset' = <<>>
            /\ UNCHANGED <<chosen, rng>>
  /\ pc' = "main"
  /\ order' = Append(order, "GeneratePreset")
  /\ UNCHANGED <<args, paceSec, alloc, warmup, mainSet, cooldown, totals, out, prev, seedUsed, other, overlap,
               shufflerVars, pickVars>>

GenerateMain ==
  /\ pc = "main"
  /\ \E u \in {Draws(rng, 4)} :
       \E t \in {weightedPick(
                   [i \in 1..Len(MAIN_SET_TEMPLATES) |-> MAIN_SET_TEMPLATES[i].fn],
                   [i \in 1..Len(MAIN_SET_TEMPLATES) |-> MAIN_SET_TEMPLATES[i].weight],
                   u[1])} :
         \E made \in {mainTemplate(t, alloc.mainTarget, paceSec, Tail(u))} :
           /\ chosen' = [chosen EXCEPT !.main = t]
           /\ mainSet' = made.items
           /\ rng' = AdvanceN(rng, 1 + made.draws)
  /\ pc' = "cooldown"
  /\ order' = Append(order, "GenerateMain")
  /\ UNCHANGED <<args, paceSec, alloc, warmup, preset, cooldown, totals, out, prev, seedUsed, other, overlap,
               shufflerVars, pickVars>>

GenerateCooldown ==
  /\ pc = "cooldown"
  /\ \E u \in {Draws(rng, 1)} :
       \E t \in {pick(COOLDOWN_TEMPLATES, u[1])} :
         \E made \in {cooldownTemplate(t, alloc.cooldownTarget, paceSec, Tail(u))} :
           /\ chosen' = [chosen EXCEPT !.cooldown = t]
           /\ cooldown' = made.items
           /\ rng' = AdvanceN(rng, 1 + made.draws)
  /\ pc' = "aggregate"
  /\ order' = Append(order, "GenerateCooldown")
  /\ UNCHANGED <<args, paceSec, alloc, warmup, preset, mainSet, totals, out, prev, seedUsed, other, overlap,
               shufflerVars, pickVars>>

\* Mutant: the pre-set is left out of the total.
TotalDistNoPreset(w, p, m, c) == w + m + c
\* warmupDist + presetDist + mainDist + cooldownDist
TotalDist(w, p, m, c) == w + p + m + c

Aggregate ==
  /\ pc = "aggregate"
  /\ LET w == groupDistance(warmup)
         p == groupDistance(preset)
         m == groupDistance(mainSet)
         c == groupDistance(cooldown)
     IN totals' = [warmupDist |-> w, presetDist |-> p, mainDist |-> m, cooldownDist |-> c,
                   totalDist |-> TotalDist(w, p, m, c),
                   totalDurSec |-> groupDuration(warmup, paceSec * 115)
                                   + groupDuration(preset, paceSec * 110)
                                   + groupDuration(mainSet, paceSec * 100)
                                   + groupDuration(cooldown, paceSec * 120)]
  /\ pc' = "emit"
  /\ order' = Append(order, "Aggregate")
  /\ UNCHANGED <<args, rng, paceSec, alloc, chosen, warmup, preset, mainSet, cooldown, out, prev, seedUsed, other, overlap,
               shufflerVars, pickVars>>

Section(name, items, distance) ==
  [name |-> name, items |-> formatSet(items), distance |-> distance]

\* Math.round(totalDurSec / 60)
EstimatedMinutes(totalDurSec) == Round(totalDurSec, 60 * TimeScale)

Emit ==
  /\ pc = "emit"
  /\ \E u \in {Draws(rng, 1)} :
       out' = << [name |-> pick(names, u[1]),
                  duration |-> args.duration,
                  pace |-> args.pace,
                  unit |-> args.unit,
                  totalDistance |-> totals.totalDist,
                  estimatedMinutes |-> EstimatedMinutes(totals.totalDurSec),
                  sections |->
                    <<Section("Warmup", warmup, totals.warmupDist)>>
                    \o (IF Len(preset) > 0
                          THEN <<Section("Pre-Set", preset, totals.presetDist)>>
                          ELSE <<>>)
                    \o <<Section("Main Set", mainSet, totals.mainDist),
                         Section("Cooldown", cooldown, totals.cooldownDist)>>,
                  seed |-> args.seed] >>
  /\ rng' = AdvanceN(rng, 1)
  /\ pc' = "done"
  /\ order' = Append(order, "Emit")
  /\ UNCHANGED <<args, paceSec, alloc, chosen, warmup, preset, mainSet, cooldown, totals, prev, seedUsed, other, overlap,
               shufflerVars, pickVars>>

\* The caller calls again with the same arguments.
Reinvoke ==
  /\ pc = "done"
  /\ Entered(out)

Next ==
  \/ SeedAndParse
  \/ Allocate
  \/ GenerateWarmup
  \/ GeneratePreset
  \/ GenerateMain
  \/ GenerateCooldown
  \/ Aggregate
  \/ Emit
  \/ Reinvoke

Spec == Init /\ [][Next]_vars

\* generateWorkout called with a duration that is not positive.
NonPositiveDurations == {0, 0 - 30}
InvalidInputs == [duration : NonPositiveDurations, pace : Paces, unit : Units, seed : SeedArgs]
InitInvalid == InitFrom(InvalidInputs)
\* The caller calls again with the same duration, pace and seed and the other unit.
OtherUnit(unit) == IF unit = "meters" THEN "yards" ELSE "meters"
InvokeOtherUnit ==
  /\ pc = "done"
  /\ EnteredWith([args EXCEPT !.unit = OtherUnit(args.unit)], out)

NextUnits ==
  \/ SeedAndParse
  \/ Allocate
  \/ GenerateWarmup
  \/ GeneratePreset
  \/ GenerateMain
  \/ GenerateCooldown
  \/ Aggregate
  \/ Emit
  \/ InvokeOtherUnit

SpecUnits == Init /\ [][NextUnits]_vars

\* The locals of the running call.
Frame ==
  [pc |-> pc, args |-> args, rng |-> rng, paceSec |-> paceSec, alloc |-> alloc,
   chosen |-> chosen, warmup |-> warmup, preset |-> preset, mainSet |-> mainSet,
   cooldown |-> cooldown, totals |-> totals, out |-> out, prev |-> prev,
   order |-> order, seedUsed |-> seedUsed]
\* A call that has made a step and has not returned.
UnderWay(f) == f.pc # "seedAndParse" /\ f.pc # "done"
\* Mutant: one generator for the module, which every call assigns and draws from.
SharedRng(mine, current) == current
\* const rng = createRng(...): the generator a call draws from is its own.
OwnRng(mine, current) == mine

\* Two calls in progress: control passes from the running call to the other one.
Switch ==
  /\ other # <<>>
  /\ LET o == other[1]
     IN /\ pc' = o.pc
        /\ args' = o.args
        /\ rng' = OwnRng(o.rng, rng)
        /\ paceSec' = o.paceSec
        /\ alloc' = o.alloc
        /\ chosen' = o.chosen
        /\ warmup' = o.warmup /\ preset' = o.preset
        /\ mainSet' = o.mainSet /\ cooldown' = o.cooldown
        /\ totals' = o.totals
        /\ out' = o.out
        /\ prev' = o.prev
        /\ order' = o.order
        /\ seedUsed' = o.seedUsed
        /\ overlap' = (overlap \/ (UnderWay(o) /\ UnderWay(Frame)))
  /\ other' = <<Frame>>
  /\ UNCHANGED <<shufflerVars, pickVars>>

NextConcurrent ==
  \/ Next
  \/ Switch

\* Two calls, each with its own seed.
ConcurrentInputs == [duration : {30, 60}, pace : {<<"1", ":", "3", "0">>},
                     unit : {"yards"}, seed : {42, 43}]
InitConcurrent ==
  /\ Fresh(ConcurrentInputs)
  /\ \E a \in ConcurrentInputs :
       other = << [pc |-> "seedAndParse", args |-> a, rng |-> <<0, 0>>, paceSec |-> 0,
                   alloc |-> NoAlloc, chosen |-> NoChosen, warmup |-> <<>>,
                   preset |-> <<>>, mainSet |-> <<>>, cooldown |-> <<>>,
                   totals |-> NoTotals, out |-> <<>>, prev |-> <<>>, order |-> <<>>,
                   seedUsed |-> undefined] >>
  /\ overlap = FALSE
  /\ ShufflerUnmounted /\ NoScoreboard
SpecConcurrent == InitConcurrent /\ [][NextConcurrent]_vars

SpecInvalid == InitInvalid /\ [][Next]_vars

\* generateWorkout called with a positive duration shorter than the page offers.
ShortDurations == {2, 10}
ShortInputs == [duration : ShortDurations, pace : Paces, unit : Units, seed : SeedArgs]
InitShort == InitFrom(ShortInputs)
SpecShort == InitShort /\ [][Next]_vars

\* ---------------------------------------------------------------- properties
Done == pc = "done"
Result == out[1]
SectionNamed(name) == {i \in 1..Len(Result.sections) : Result.sections[i].name = name}
\* Every item of a sequence, at any nesting depth, groups included.
RECURSIVE AllItems(_)
AllItems(items) ==
  IF items = <<>> THEN {}
  ELSE {Head(items)} \cup AllItems(Head(items).items) \cup AllItems(Tail(items))
ItemsOf(name) == UNION {AllItems(Result.sections[i].items) : i \in SectionNamed(name)}
Ran(step) == \E i \in 1..Len(order) : order[i] = step
Pace130 == <<"1", ":", "3", "0">>
Pace230 == <<"2", ":", "3", "0">>

\* C1 (determinism): a call with an integer seed returns exactly what the previous
\* call with the same duration, pace, unit and seed returned.
C1_SameArgsSameWorkout ==
  (Done /\ prev # <<>> /\ args.seed # undefined) => out = prev
C1_Witness ==
  Done /\ prev # <<>> /\ args.seed = 42 /\ out = prev /\ Len(Result.sections) = 3

\* C2 (aggregation per section): each section's distance is the recursive sum over
\* its items, a group counting repetitions times the sum of its children.
RECURSIVE RecursiveSum(_)
RecursiveSum(items) ==
  IF items = <<>> THEN 0
  ELSE LET item == Head(items)
       IN (IF HasItems(item) THEN item.reps * RecursiveSum(item.items)
           ELSE item.reps * item.distance)
          + RecursiveSum(Tail(items))
C2_SectionDistanceIsRecursiveSum ==
  Done => \A i \in 1..Len(Result.sections) :
            Result.sections[i].distance = RecursiveSum(Result.sections[i].items)

\* C3: totalDistance is the sum of the distances of the sections in the output,
\* with or without a Pre-Set section.
C3_TotalIsSumOfSections ==
  Done => Result.totalDistance
            = SumSeq([i \in 1..Len(Result.sections) |-> Result.sections[i].distance])
C3_Witness ==
  /\ Done
  /\ SectionNamed("Pre-Set") # {}
  /\ \A i \in SectionNamed("Pre-Set") : Result.sections[i].distance > 0
  /\ Result.totalDistance
       = SumSeq([i \in 1..Len(Result.sections) |-> Result.sections[i].distance])

\* C4 (interval granularity): every interval and every rest an item of the output
\* carries, at any depth, is a multiple of 5 seconds.
AllOutputItems == UNION {AllItems(Result.sections[i].items) : i \in 1..Len(Result.sections)}
C4_TimingMultipleOf5 ==
  Done => \A item \in AllOutputItems :
            /\ item.interval # undefined => item.interval % 5 = 0
            /\ item.rest # undefined => item.rest % 5 = 0
C4_Witness ==
  /\ Done
  /\ chosen.main = "mainBrokenSwim"
  /\ \E item \in ItemsOf("Main Set") : item.rest > 0 /\ item.rest % 5 = 0
  /\ \E item \in ItemsOf("Main Set") : item.interval > 0 /\ item.interval % 5 = 0
  /\ \E item \in ItemsOf("Warmup") : item.interval % 5 = 0 /\ item.interval % 10 # 0

\* C5 (repetition niceness): every repetition count in the Main Set and Pre-Set
\* sections is one of 2,3,4,5,6,8,10,12,15,16,20, and a kick pre-set has at most 12.
NiceReps == {2, 3, 4, 5, 6, 8, 10, 12, 15, 16, 20}
C5_RepetitionsAreNice ==
  Done => /\ \A item \in ItemsOf("Main Set") \cup ItemsOf("Pre-Set") : item.reps \in NiceReps
          /\ chosen.preset = "presetKick" => \A item \in ItemsOf("Pre-Set") : item.reps <= 12

\* C6 (warmup bounds): the Warmup section's distance is at most 1000, and at least
\* 200 when the section has items.
C6_WarmupBetween200And1000 ==
  Done => \A i \in SectionNamed("Warmup") :
            /\ Result.sections[i].distance <= 1000
            /\ Len(Result.sections[i].items) > 0 => Result.sections[i].distance >= 200

\* C7 (cooldown floor): the Cooldown section's distance is at least 200.
C7_CooldownAtLeast200 ==
  Done => \A i \in SectionNamed("Cooldown") : Result.sections[i].distance >= 200
C7_Witness ==
  /\ Done
  /\ alloc.cooldownTarget = 200
  /\ Share(alloc.totalTargetDist, 8) < 200
  /\ chosen.cooldown = "cooldownMixed"
  /\ \A i \in SectionNamed("Cooldown") : Result.sections[i].distance = 200

\* C8 (continuity): no item of the Warmup or the Cooldown section has an interval
\* or a non-zero rest.
C8_WarmupCooldownContinuous ==
  Done => \A item \in ItemsOf("Warmup") \cup ItemsOf("Cooldown") :
            ~Truthy(item.interval) /\ ~Truthy(item.rest)

\* C9 (order of composition): the warmup and cooldown targets are computed (the
\* step Allocate assigns them) only after the main set and the pre-set were
\* generated, and the warmup is generated after the main set.
C9_MainBeforeWarmupCooldownTargets ==
  /\ Ran("Allocate") => (Ran("GenerateMain") /\ Ran("GeneratePreset"))
  /\ Ran("GenerateWarmup") => Ran("GenerateMain")

\* C10: duration 60, pace 1:30, yards, seed 42 gives estimatedMinutes in 54..66.
C10_Scenario42Within10Percent ==
  (Done /\ args = [duration |-> 60, pace |-> Pace130, unit |-> "yards", seed |-> 42])
    => (54 <= Result.estimatedMinutes /\ Result.estimatedMinutes <= 66)

\* C11 (short session, slow pace): with duration 30 and pace 1:45 the output has
\* a Warmup and a Main Set section, each with at least one item and a positive
\* distance.
Pace145 == <<"1", ":", "4", "5">>
C11_ShortSlowSessionNonEmpty ==
  (Done /\ args.duration = 30 /\ args.pace = Pace145) =>
    /\ SectionNamed("Warmup") # {}
    /\ SectionNamed("Main Set") # {}
    /\ \A i \in SectionNamed("Warmup") \cup SectionNamed("Main Set") :
         Len(Result.sections[i].items) >= 1 /\ Result.sections[i].distance > 0
C11_Witness ==
  /\ Done /\ args.duration = 30 /\ args.pace = Pace145
  /\ alloc.totalTargetDist = 1350 /\ alloc.hasPreset /\ alloc.mainTarget = 750
  /\ \E i \in SectionNamed("Warmup") :
       Len(Result.sections[i].items) >= 1 /\ Result.sections[i].distance > 0
  /\ \E i \in SectionNamed("Main Set") :
       Len(Result.sections[i].items) >= 1 /\ Result.sections[i].distance > 0

\* C12 (invalid input is rejected): a call whose duration is not positive or whose
\* pace does not parse to a number generates no template and returns no workout.
C12_InvalidInputRejected ==
  (args.duration <= 0 \/ parsePace(args.pace) = NaN) =>
    /\ out = <<>>
    /\ ~Ran("GenerateWarmup") /\ ~Ran("GeneratePreset")
    /\ ~Ran("GenerateMain") /\ ~Ran("GenerateCooldown")

\* C13 (seed round trip): the seed field of the returned workout is the number
\* the call's generator was constructed from: the seed passed, or the one drawn
\* when none was passed.
C13_SeedFieldIsSeedUsed ==
  Done => (Result.seed = seedUsed /\ Result.seed # undefined)

\* C14 (no empty section): every section of the output has at least one item and
\* a positive distance, every item has repetitions >= 1 and a distance > 0, and
\* the sections are Warmup, Pre-Set (only when a pre-set was generated), Main Set,
\* Cooldown, in this order.
SectionNames == [i \in 1..Len(Result.sections) |-> Result.sections[i].name]
C14_SectionsNonEmpty ==
  Done => \A i \in 1..Len(Result.sections) :
            Len(Result.sections[i].items) >= 1 /\ Result.sections[i].distance > 0
C14_ItemsPositive ==
  Done => \A item \in AllOutputItems : item.reps >= 1 /\ item.distance > 0
C14_SectionOrder ==
  Done => SectionNames = IF Len(preset) > 0
                           THEN <<"Warmup", "Pre-Set", "Main Set", "Cooldown">>
                           ELSE <<"Warmup", "Main Set", "Cooldown">>
C14_NoEmptySection ==
  C14_SectionsNonEmpty /\ C14_ItemsPositive /\ C14_SectionOrder

\* C15 (isolation of interleaved calls): a call with an integer seed whose steps
\* are interleaved with those of another call returns what the same call returned
\* before, whatever the order of the steps; this holds of the running call and of
\* the suspended one.
C15_InterleavedCallsIsolated ==
  /\ (Done /\ prev # <<>>) => out = prev
  /\ \A i \in 1..Len(other) :
       (other[i].pc = "done" /\ other[i].prev # <<>>) => other[i].out = other[i].prev
C15_Witness ==
  /\ Done /\ prev # <<>> /\ out = prev
  /\ overlap
  /\ other # <<>> /\ other[1].args # args /\ UnderWay(other[1])

\* C16 (unit non-interference): the output echoes the duration, pace and unit of
\* the request, and a call with an integer seed returns, apart from the unit
\* field, what the call with the other unit and the same duration, pace and seed
\* returned.
SameButUnit(w1, w2) == [w1 EXCEPT !.unit = "any"] = [w2 EXCEPT !.unit = "any"]
C16_UnitOnlyEchoed ==
  Done =>
    /\ Result.duration = args.duration /\ Result.pace = args.pace
    /\ Result.unit = args.unit
    /\ (prev # <<>> /\ args.seed # undefined) =>
         (prev[1].unit = OtherUnit(args.unit) /\ SameButUnit(Result, prev[1]))
C16_Witness ==
  /\ Done /\ prev # <<>> /\ args.seed = 42
  /\ prev[1].unit = "meters" /\ Result.unit = "yards"
  /\ Result.totalDistance > 0 /\ Result.sections = prev[1].sections
  /\ SameButUnit(Result, prev[1])

\* C17 (total target distance): the total target distance is
\* duration * 60 * utilization / (paceSeconds / 100) rounded to the nearest 100,
\* with utilization 0.72 up to 30 minutes, 0.68 up to 60 and 0.65 beyond.
Utilization(duration) == IF duration <= 30 THEN 72 ELSE IF duration <= 60 THEN 68 ELSE 65
C17_TotalTargetByUtilization ==
  Ran("Allocate") =>
    alloc.totalTargetDist = Round(args.duration * 60 * Utilization(args.duration), paceSec * 100) * 100

\* C18 (main-set allocation): the target passed to the main-set template is 62% of
\* the total target distance rounded to the nearest 100, with or without a
\* pre-set, and the target of an included pre-set is 10% of the total rounded to
\* the nearest 100.
C18_MainIs62PercentPresetIs10 ==
  Ran("Allocate") =>
    /\ alloc.mainTarget = Round(alloc.totalTargetDist * 62, 100 * 100) * 100
    /\ alloc.hasPreset => alloc.presetTarget = Round(alloc.totalTargetDist * 10, 100 * 100) * 100

\* C19 (warmup and cooldown allocation): with R the distance that remains after
\* the main set and the pre-set, the cooldown target is max(200, 30% of R to the
\* nearest 50) and the warmup target is the rest of R to the nearest 50, at least
\* 200 and at most 1000.
Remainder == alloc.totalTargetDist - groupDistance(mainSet) - groupDistance(preset)
C19_WarmupCooldownSplitRemainder ==
  Ran("GenerateMain") =>
    /\ alloc.cooldownTarget = Max(200, Round(Remainder * 30, 50 * 100) * 50)
    /\ alloc.warmupTarget
         = Min(1000, Max(200, Round(Remainder - alloc.cooldownTarget, 50) * 50))

\* C20 (shape of a warmup): what a warmup template returns starts with one
\* continuous free swim of exactly 200 (repetitions 1, no interval, no rest) and
\* has at most one further item, which is continuous too.
Continuous(item) == item.reps = 1 /\ ~Truthy(item.interval) /\ ~Truthy(item.rest)
C20_WarmupLeadsWith200Free ==
  Ran("GenerateWarmup") =>
    /\ Len(warmup) \in {1, 2}
    /\ warmup[1].distance = 200 /\ warmup[1].stroke = "free" /\ Continuous(warmup[1])
    /\ \A i \in 2..Len(warmup) : Continuous(warmup[i])

\* C21 (shape of a cooldown): what a cooldown template returns ends with one
\* continuous free swim of exactly 200 (repetitions 1, no interval, no rest) and
\* has at most one item before it, which is continuous too.
C21_CooldownEndsWith200Free ==
  Ran("GenerateCooldown") =>
    /\ Len(cooldown) \in {1, 2}
    /\ cooldown[Len(cooldown)].distance = 200
    /\ cooldown[Len(cooldown)].stroke = "free"
    /\ \A i \in 1..Len(cooldown) : Continuous(cooldown[i])

\* C22 (shape of a pre-set): a pre-set template returns exactly one item, which
\* has an interval, no rest value, and an equipment tag.
C22_PresetOneIntervalItemWithEquipment ==
  (Ran("GeneratePreset") /\ alloc.hasPreset) =>
    /\ Len(preset) = 1
    /\ preset[1].interval # undefined
    /\ preset[1].rest = undefined
    /\ preset[1].equipment # NoStr

\* C23 (duration of one item): with an interval, repetitions * interval; else with
\* a rest that is not 0, repetitions * (swimTime + rest) - rest; else
\* repetitions * swimTime, where swimTime = distance / 100 * pace. Times are in
\* ten-thousandths of a second, pace100 in hundredths of a second per 100.
SingleItems(items) == {item \in AllItems(items) : ~HasItems(item)}
ItemDuration(item, pace100) ==
  LET swimTime == item.distance * pace100
  IN IF item.interval # undefined THEN item.reps * item.interval * TimeScale
     ELSE IF item.rest # undefined /\ item.rest # 0
       THEN item.reps * (swimTime + item.rest * TimeScale) - item.rest * TimeScale
     ELSE item.reps * swimTime
DurationsAsClaimed(items, pace100) ==
  \A item \in SingleItems(items) : calcSetDuration(item, pace100) = ItemDuration(item, pace100)
C23_SingleItemDuration ==
  Ran("Aggregate") =>
    /\ DurationsAsClaimed(warmup, paceSec * 115)
    /\ DurationsAsClaimed(preset, paceSec * 110)
    /\ DurationsAsClaimed(mainSet, paceSec * 100)
    /\ DurationsAsClaimed(cooldown, paceSec * 120)
C23_Witness ==
  /\ Ran("Aggregate")
  /\ \E item \in SingleItems(preset) :
       /\ item.rest > 0 /\ item.reps > 1 /\ item.interval = undefined
       /\ calcSetDuration(item, paceSec * 110)
            = item.reps * item.distance * paceSec * 110 + (item.reps - 1) * item.rest * TimeScale
  /\ \E item \in SingleItems(mainSet) :
       item.interval > 0 /\ calcSetDuration(item, paceSec * 100) = item.reps * item.interval * TimeScale
  /\ \E item \in SingleItems(cooldown) :
       item.rest = 0 /\ calcSetDuration(item, paceSec * 120) = item.reps * item.distance * paceSec * 120

\* C24 (duration of a list): the duration of a list of items is the sum of the
\* durations of its single items and, for a group, the group's repetitions times
\* the duration of its children; the estimate of the workout is the sum over the
\* four sections at their paces.
RECURSIVE RecursiveDuration(_, _)
RecursiveDuration(items, pace100) ==
  IF items = <<>> THEN 0
  ELSE LET item == Head(items)
       IN (IF HasItems(item) THEN item.reps * RecursiveDuration(item.items, pace100)
           ELSE ItemDuration(item, pace100))
          + RecursiveDuration(Tail(items), pace100)
C24_DurationMultipliesGroups ==
  Ran("Aggregate") =>
    totals.totalDurSec = RecursiveDuration(warmup, paceSec * 115)
                         + RecursiveDuration(preset, paceSec * 110)
                         + RecursiveDuration(mainSet, paceSec * 100)
                         + RecursiveDuration(cooldown, paceSec * 120)

\* C27 (timing exclusivity): no item of the output, at any depth, has both an
\* interval and a rest that is not 0.
C27_IntervalOrRestNotBoth ==
  Done => \A item \in AllOutputItems : ~(Truthy(item.interval) /\ Truthy(item.rest))
C27_Witness ==
  /\ Done
  /\ chosen.main = "mainMixedGear"
  /\ \E item \in AllOutputItems : Truthy(item.interval) /\ ~Truthy(item.rest)
  /\ \E item \in AllOutputItems : Truthy(item.rest) /\ ~Truthy(item.interval)
  /\ \E item \in AllOutputItems : ~Truthy(item.rest) /\ ~Truthy(item.interval)

\* C25 (weighted pick): with u = x / 2^32 the value drawn, the main-set template
\* picked is the one of least index i whose cumulative weight w[1] + ... + w[i]
\* is at least u * total (the last one if there is none), it is a template of the
\* catalog, and the pick takes exactly one value from the generator: the
\* template gets the values that follow it.
MainFns == [i \in 1..Len(MAIN_SET_TEMPLATES) |-> MAIN_SET_TEMPLATES[i].fn]
MainWeights == [i \in 1..Len(MAIN_SET_TEMPLATES) |-> MAIN_SET_TEMPLATES[i].weight]
\* cum * 2^32 >= x * total for a word x = <<high half, low half>>
CumAtLeast(cum, x, total) ==
  LET a == cum * W16 - x[1] * total
  IN IF a <= 0 THEN a = 0 /\ x[2] * total = 0
     ELSE IF a >= total THEN TRUE
     ELSE a * W16 >= x[2] * total
CumWeight(weights, i) == SumSeq(SubSeq(weights, 1, i))
LeastIndex(weights, x) ==
  LET ok == {i \in 1..Len(weights) : CumAtLeast(CumWeight(weights, i), x, SumSeq(weights))}
  IN IF ok = {} THEN Len(weights) ELSE CHOOSE i \in ok : \A j \in ok : i <= j
C25_WeightedPickByCumulativeWeight ==
  [][pc = "main" =>
       /\ chosen'.main = MainFns[LeastIndex(MainWeights, next(rng, 1))]
       /\ \E i \in 1..Len(MainFns) : chosen'.main = MainFns[i]
       /\ LET made == mainTemplate(chosen'.main, alloc.mainTarget, paceSec,
                                   [k \in 1..3 |-> next(rng, k + 1)])
          IN mainSet' = made.items /\ rng' = AdvanceN(rng, 1 + made.draws)]_vars
C25_Witness ==
  /\ pc = "cooldown" /\ Ran("GenerateMain")
  /\ chosen.main = MainFns[Len(MainFns)]
  /\ MainWeights[Len(MainFns)] < MainWeights[1]

\* C26 (frame condition of the formatter): the items of a section of the output
\* are, in number, order and every field but the display strings, the items the
\* template returned, at every depth, and every item that is not a group has a
\* display string for each interval and each rest it carries.
RECURSIVE Unformatted(_)
Unformatted(items) ==
  [i \in 1..Len(items) |->
     [reps |-> items[i].reps, distance |-> items[i].distance,
      interval |-> items[i].interval, rest |-> items[i].rest,
      description |-> items[i].description, stroke |-> items[i].stroke,
      equipment |-> items[i].equipment, isGroup |-> items[i].isGroup,
      items |-> Unformatted(items[i].items)]]
Generated(name) ==
  CASE name = "Warmup" -> warmup
    [] name = "Pre-Set" -> preset
    [] name = "Main Set" -> mainSet
    [] name = "Cooldown" -> cooldown
FieldsKept ==
  \A i \in 1..Len(Result.sections) :
    Unformatted(Result.sections[i].items) = Generated(Result.sections[i].name)
C26_FormatterKeepsFieldsAddsDisplays ==
  Done =>
    /\ FieldsKept
    /\ \A item \in AllOutputItems :
         ~item.isGroup =>
           /\ item.interval # undefined => item.intervalDisplay = formatTime(item.interval)
           /\ item.rest # undefined => item.restDisplay = formatTime(item.rest)
\* C26 as amended: a display string for each interval and each rest that is
\* present and not 0, the null display otherwise (a rest of 0 included), and no
\* display on a group.
C26_DisplaysForNonZeroTimings ==
  Done =>
    /\ FieldsKept
    /\ \A item \in AllOutputItems :
         IF item.isGroup
           THEN item.intervalDisplay = NoStr /\ item.restDisplay = NoStr
           ELSE /\ item.intervalDisplay = IF Truthy(item.interval)
                                            THEN formatTime(item.interval) ELSE NullStr
                /\ item.restDisplay = IF Truthy(item.rest)
                                        THEN formatTime(item.rest) ELSE NullStr
C26_Witness ==
  /\ Done
  /\ chosen.main = "mainMixedGear"
  /\ FieldsKept
  /\ \E g \in AllOutputItems :
       /\ g.isGroup
       /\ \E k \in 1..Len(g.items) : g.items[k].interval > 0 /\ g.items[k].intervalDisplay # NullStr
       /\ \E k \in 1..Len(g.items) : g.items[k].rest > 0 /\ g.items[k].restDisplay # NullStr
  /\ \E item \in AllOutputItems : item.rest = 0 /\ item.restDisplay = NullStr


-----------------------------------------------------------------------------
\* IdeaShuffler (src/src/components/IdeaShuffler.jsx).  A handler, the render
\* that follows it and the effects of that render are one step: the refs are
\* written at every render, so a handler reads the state of the last render.

MaxIdeas == 3
MaxPending == 1
Placeholder == "Add a few ideas to get started!"

\* The texts typed into the textarea: two short ones and one of more than
\* eight words, which is sent to /api/condense.
ShortTexts == {"a", "b"}
RawTexts == ShortTexts \cup {"c c c c c c c c c. c"}
capitalize ==
  [t \in RawTexts |-> CASE t = "a" -> "A"
                        [] t = "b" -> "B"
                        [] OTHER -> "C c c c c c c c c. c"]
\* What condenseText can resolve to: the capitalised text when it is short,
\* else the title of the API, the capitalised text when that title is empty,
\* or the capitalised first sentence when the request failed.
condenseText(raw) ==
  IF raw \in ShortTexts THEN {capitalize[raw]}
  ELSE {"C", capitalize[raw], "C c c c c c c c c"}

SeqsUpTo(S, n) == UNION {[1..k -> S] : k \in 0..n}
\* loadIdeas: the list saved in localStorage, or the empty list.
SavedIdeas == SeqsUpTo({"A", "B", "C"}, MaxIdeas)

\* list[idx] as JavaScript reads it: undefined outside the list.
At(list, idx) == IF idx >= 0 /\ idx < Len(list) THEN list[idx + 1] ELSE undefined

\* The effect that computes the display text, given the text shown so far.
DisplayEffect(list, idx, shown) ==
  IF Len(list) = 0 THEN Placeholder
  ELSE IF idx >= 0 /\ idx < Len(list) THEN list[idx + 1]
  ELSE shown

\* The remainder operator of JavaScript, which has the sign of the dividend.
JsRem(a, n) == IF a >= 0 THEN a % n ELSE 0 - ((0 - a) % n)
WrapIndexNoAdd(idx, delta, n) == JsRem(idx + delta, n)
WrapIndex(idx, delta, n) == JsRem(JsRem(idx + delta, n) + n, n)

\* The two timers of a flip: the swap of the text, due first, and the release.
flip(direction, newText) ==
  IF flippingRef
  THEN UNCHANGED <<flippingRef, flipClass, timers>>
  ELSE /\ flippingRef' = TRUE
       /\ flipClass' = (IF direction = "down" THEN "flip-down" ELSE "flip-up")
       /\ timers' = timers \o << [kind |-> "swap", text |-> newText],
                                 [kind |-> "release", text |-> ""] >>

\* The page of the shuffler never calls generateWorkout.
EngineNotCalled ==
  /\ Fresh({[duration |-> 30, pace |-> <<"1", ":", "3", "0">>, unit |-> "yards", seed |-> 0]})
  /\ other = <<>> /\ overlap = FALSE

\* The first render and its effects.
InitShuffler ==
  /\ EngineNotCalled
  /\ NoScoreboard
  /\ ideas \in SavedIdeas
  /\ currentIdx \in (IF Len(ideas) > 0 THEN 0..(Len(ideas) - 1) ELSE {0 - 1})
  /\ displayText = DisplayEffect(ideas, currentIdx, "")
  /\ flipClass = ""
  /\ flippingRef = FALSE
  /\ timers = <<>>
  /\ pendingAdds = <<>>

Deltas == {0 - 1, 1}
step(delta) ==
  LET n == Len(ideas)
      newIdx == WrapIndex(currentIdx, delta, n)
  IN  IF n = 0
      THEN UNCHANGED vars
      ELSE /\ currentIdx' = newIdx
           /\ flip(IF delta > 0 THEN "down" ELSE "up", At(ideas, newIdx))
           /\ displayText' = (IF newIdx # currentIdx
                              THEN DisplayEffect(ideas, newIdx, displayText)
                              ELSE displayText)
           /\ UNCHANGED <<ideas, pendingAdds, engineVars, pickVars>>

\* handleAdd up to its await.
handleAddStart(raw) ==
  /\ Len(pendingAdds) < MaxPending
  /\ pendingAdds' = Append(pendingAdds, raw)
  /\ UNCHANGED <<ideas, currentIdx, displayText, flipClass, flippingRef, timers>>
  /\ UNCHANGED <<engineVars, pickVars>>

Without(list, i) == [k \in 1..(Len(list) - 1) |-> IF k < i THEN list[k] ELSE list[k + 1]]

\* handleAdd from the moment condenseText has resolved.
handleAddResume(k, title) ==
  /\ k \in 1..Len(pendingAdds)
  /\ title \in condenseText(pendingAdds[k])
  /\ Len(ideas) < MaxIdeas
  /\ pendingAdds' = Without(pendingAdds, k)
  /\ LET nextIdeas == Append(ideas, title)
     IN  /\ ideas' = nextIdeas
         /\ IF Len(nextIdeas) = 1
            THEN currentIdx' = 0 /\ flip("down", title)
            ELSE UNCHANGED <<currentIdx, flippingRef, flipClass, timers>>
         /\ displayText' = DisplayEffect(nextIdeas, currentIdx', displayText)
  /\ UNCHANGED <<engineVars, pickVars>>

handleDelete(i) ==
  /\ i \in 0..(Len(ideas) - 1)
  /\ LET nextIdeas == Without(ideas, i + 1)
     IN  /\ ideas' = nextIdeas
         /\ IF Len(nextIdeas) = 0
            THEN currentIdx' = 0 - 1 /\ flip("down", Placeholder)
            ELSE /\ currentIdx' = (IF currentIdx >= Len(nextIdeas) THEN 0 ELSE currentIdx)
                 /\ UNCHANGED <<flippingRef, flipClass, timers>>
         /\ displayText' = DisplayEffect(nextIdeas, currentIdx', displayText)
  /\ UNCHANGED <<pendingAdds, engineVars, pickVars>>

handleClearAll ==
  /\ Len(ideas) > 0
  /\ ideas' = <<>>
  /\ currentIdx' = 0 - 1
  /\ flip("down", Placeholder)
  /\ displayText' = DisplayEffect(<<>>, 0 - 1, displayText)
  /\ UNCHANGED <<pendingAdds, engineVars, pickVars>>

\* The callback of the timer that is due first.
FireTimer ==
  /\ timers # <<>>
  /\ timers' = Tail(timers)
  /\ IF Head(timers).kind = "swap"
     THEN displayText' = Head(timers).text /\ UNCHANGED <<flipClass, flippingRef>>
     ELSE flipClass' = "" /\ flippingRef' = FALSE /\ UNCHANGED displayText
  /\ UNCHANGED <<ideas, currentIdx, pendingAdds, engineVars, pickVars>>

NextShuffler ==
  \/ \E delta \in Deltas : step(delta)
  \/ \E raw \in RawTexts : handleAddStart(raw)
  \/ \E k \in 1..MaxPending : \E title \in UNION {condenseText(raw) : raw \in RawTexts} :
       handleAddResume(k, title)
  \/ \E i \in 0..(MaxIdeas - 1) : handleDelete(i)
  \/ handleClearAll
  \/ FireTimer
SpecShuffler == InitShuffler /\ [][NextShuffler]_vars

\* The index and the list agree: -1 exactly on the empty list, else in range.
IndexInRange ==
  /\ (currentIdx = 0 - 1) <=> (Len(ideas) = 0)
  /\ Len(ideas) > 0 => (currentIdx >= 0 /\ currentIdx < Len(ideas))
\* What the claim says of one step: nothing changes on the empty list, else
\* the index moves by delta modulo the length of the list.
StepWraps(delta) ==
  IF Len(ideas) = 0
  THEN UNCHANGED vars
  ELSE /\ currentIdx' = (currentIdx + delta + Len(ideas)) % Len(ideas)
       /\ ideas' = ideas

\* C28: after any sequence of add, delete, clear-all and step, currentIdx is -1
\* exactly when the list of ideas is empty and otherwise 0 <= currentIdx <
\* ideas.length; a step moves the index by one modulo the length of the list,
\* in both directions, and changes nothing on the empty list.
C28_IndexInRangeAndStepWraps ==
  /\ []IndexInRange
  /\ [][\A delta \in Deltas : step(delta) => StepWraps(delta)]_vars
\* A step back from the first of three ideas has wrapped to the last, a step
\* forward from the last of three would have started a flip down; and a delete
\* that left the index past the end has reset it.
C28_Witness ==
  /\ Len(ideas) = 3 /\ currentIdx = 2 /\ flipClass = "flip-up"
  /\ Len(timers) = 2 /\ timers[1].text = ideas[3]

\* What the card should show once no timer is pending.
Shown == IF Len(ideas) = 0 THEN Placeholder ELSE At(ideas, currentIdx)
\* C29: once every pending flip timer has fired, the card shows
\* ideas[currentIdx] when the list is non-empty and the placeholder when it is
\* empty, whatever the interleaving of step, add, delete and clear-all with the
\* timers.
C29_DisplayConsistentOnceTimersFired ==
  timers = <<>> => displayText = Shown

-----------------------------------------------------------------------------
\* WTWTW (src/src/components/WTWTW.jsx): the game picked for one day.

MaxEvents == 2

PRIORITY ==
  << [key |-> "steelers",  label |-> "Steelers",  league |-> "football/nfl"],
     [key |-> "michigan",  label |-> "Michigan",  league |-> "basketball/mens-college-basketball"],
     [key |-> "warriors",  label |-> "Warriors",  league |-> "basketball/nba"],
     [key |-> "valkyries", label |-> "Valkyries", league |-> "basketball/wnba"],
     [key |-> "cubs",      label |-> "Cubs",      league |-> "baseball/mlb"],
     [key |-> "giants",    label |-> "Giants",    league |-> "baseball/mlb"] >>

\* A string is the sequence of its words; the words a name is searched for
\* are whole words of the names, so includes is the search for a run of words.
LowerWord ==
  [w \in {"Pittsburgh", "Steelers", "New", "York", "Giants", "Michigan", "Wolverines",
          "State", "Spartans", "Golden", "Warriors", "Los", "Angeles", "Lakers",
          "Valkyries", "Seattle", "Storm", "Chicago", "Cubs", "San", "Francisco", "Dodgers"} |->
     CASE w = "Pittsburgh" -> "pittsburgh" [] w = "Steelers" -> "steelers"
       [] w = "New" -> "new" [] w = "York" -> "york" [] w = "Giants" -> "giants"
       [] w = "Michigan" -> "michigan" [] w = "Wolverines" -> "wolverines"
       [] w = "State" -> "state" [] w = "Spartans" -> "spartans"
       [] w = "Golden" -> "golden" [] w = "Warriors" -> "warriors"
       [] w = "Los" -> "los" [] w = "Angeles" -> "angeles" [] w = "Lakers" -> "lakers"
       [] w = "Valkyries" -> "valkyries" [] w = "Seattle" -> "seattle"
       [] w = "Storm" -> "storm" [] w = "Chicago" -> "chicago" [] w = "Cubs" -> "cubs"
       [] w = "San" -> "san" [] w = "Francisco" -> "francisco" [] w = "Dodgers" -> "dodgers"]
toUpperCase ==
  [a \in {"PIT", "NYG", "MICH", "MSU", "GS", "LAL", "SEA", "CHC", "chc", "SF", "LAD", ""} |->
     IF a = "chc" THEN "CHC" ELSE a]
includes(name, part) ==
  \E k \in 0..(Len(name) - Len(part)) : SubSeq(name, k + 1, k + Len(part)) = part

\* The league paths that are fetched are the leagues of PRIORITY themselves, so
\* that league.includes(l) is league = l.
teamMatcher(priorityKey, league, competitor) ==
  LET displayName == competitor.team.displayName
      name == [k \in 1..Len(displayName) |-> LowerWord[displayName[k]]]
      abbr == toUpperCase[competitor.team.abbreviation]
  IN  CASE priorityKey = "steelers" /\ league = "football/nfl" ->
             includes(name, <<"steelers">>) \/ abbr = "PIT"
        [] priorityKey = "michigan" /\ league = "basketball/mens-college-basketball" ->
             name = <<"michigan", "wolverines">> \/ abbr = "MICH"
        [] priorityKey = "warriors" /\ league = "basketball/nba" ->
             includes(name, <<"warriors">>) \/ abbr = "GS" \/ abbr = "GSW"
        [] priorityKey = "valkyries" /\ league = "basketball/wnba" ->
             includes(name, <<"valkyries">>) \/ includes(name, <<"golden", "state", "valkyries">>)
        [] priorityKey = "cubs" /\ league = "baseball/mlb" ->
             includes(name, <<"cubs">>) \/ abbr = "CHC"
        [] priorityKey = "giants" /\ league = "baseball/mlb" ->
             includes(name, <<"giants">>) \/ abbr = "SF" \/ abbr = "SFG"
        [] OTHER -> FALSE

\* An instant is a number of minutes since a midnight UTC; Pacific daylight
\* time is seven hours behind.
PacificMinuteOfDay(date) == (date - 7 * 60) % (24 * 60)
hitsWindowPTInclusive(isoStart) ==
  LET startMin == PacificMinuteOfDay(isoStart)
      endMin == startMin + 180
      windowStart == 17 * 60
      windowEnd == 20 * 60
  IN  startMin <= windowEnd /\ endMin > windowStart
hitsWindowPT(isoStart) ==
  LET startMin == PacificMinuteOfDay(isoStart)
      endMin == startMin + 180
      windowStart == 17 * 60
      windowEnd == 20 * 60
  IN  startMin < windowEnd /\ endMin > windowStart

\* The first entry of PRIORITY, from index k, that the event matches; 0 if none.
RECURSIVE FirstMatch(_, _)
FirstMatch(entry, k) ==
  IF k > Len(PRIORITY) THEN 0
  ELSE LET pri == PRIORITY[k]
           comps == entry.event.competitions[1].competitors
       IN  IF entry.leaguePath # pri.league THEN FirstMatch(entry, k + 1)
           ELSE IF /\ \E c \in 1..Len(comps) : teamMatcher(pri.key, entry.leaguePath, comps[c])
                   /\ hitsWindowPT(entry.event.date)
                THEN k
                ELSE FirstMatch(entry, k + 1)

RECURSIVE Candidates(_)
Candidates(events) ==
  IF events = <<>> THEN <<>>
  ELSE LET k == FirstMatch(Head(events), 1)
       IN  (IF k = 0 THEN <<>>
            ELSE << [priorityIndex |-> k - 1, pri |-> PRIORITY[k], event |-> Head(events).event] >>)
           \o Candidates(Tail(events))

\* The comparator handed to sort: a || b is b when a is 0.
CompareCandidates(a, b) ==
  IF a.priorityIndex - b.priorityIndex # 0
  THEN a.priorityIndex - b.priorityIndex
  ELSE a.event.date - b.event.date
\* Array.prototype.sort is stable: x goes behind every element that is not after it.
RECURSIVE InsertSorted(_, _)
InsertSorted(sorted, x) ==
  IF sorted = <<>> THEN <<x>>
  ELSE IF CompareCandidates(Head(sorted), x) <= 0
       THEN <<Head(sorted)>> \o InsertSorted(Tail(sorted), x)
       ELSE <<x>> \o sorted
RECURSIVE SortCandidates(_)
SortCandidates(cands) ==
  IF cands = <<>> THEN <<>>
  ELSE InsertSorted(SortCandidates(SubSeq(cands, 1, Len(cands) - 1)), cands[Len(cands)])

\* null is the empty sequence, a pick the sequence of one candidate.
pickEventForDay(events) ==
  LET candidates == Candidates(events)
  IN  IF Len(candidates) = 0 THEN <<>> ELSE <<SortCandidates(candidates)[1]>>

\* The scoreboards: a league, the two teams of a game and the instant it starts.
Team(name, abbr) == [team |-> [displayName |-> name, abbreviation |-> abbr]]
Scoreboard ==
  { [leaguePath |-> m[1],
     event |-> [date |-> t, competitions |-> << [competitors |-> <<m[2], m[3]>>] >>]] :
    \* 14:00, 14:01, 17:00, 19:59 and 20:00 Pacific time of one day.
    t \in {21 * 60, 21 * 60 + 1, 24 * 60, 26 * 60 + 59, 27 * 60},
    m \in
  { <<"football/nfl", Team(<<"Pittsburgh", "Steelers">>, "PIT"), Team(<<"New", "York", "Giants">>, "NYG")>>,
    <<"basketball/mens-college-basketball", Team(<<"Michigan", "Wolverines">>, "MICH"),
                                            Team(<<"Michigan", "State", "Spartans">>, "MSU")>>,
    <<"basketball/nba", Team(<<"Los", "Angeles", "Lakers">>, "LAL"), Team(<<"Golden", "State", "Warriors">>, "GS")>>,
    <<"basketball/wnba", Team(<<"Golden", "State", "Valkyries">>, "GS"), Team(<<"Seattle", "Storm">>, "SEA")>>,
    <<"baseball/mlb", Team(<<"Chicago", "Cubs">>, "CHC"), Team(<<"San", "Francisco", "Giants">>, "SF")>>,
    <<"baseball/mlb", Team(<<"Los", "Angeles", "Dodgers">>, "LAD"), Team(<<"San", "Francisco", "Giants">>, "SF")>>,
    <<"baseball/mlb", Team(<<>>, "chc"), Team(<<"Los", "Angeles", "Dodgers">>, "LAD")>> } }

PickEvent ==
  /\ picked = <<>>
  /\ picked' = <<pickEventForDay(dayEvents)>>
  /\ UNCHANGED <<dayEvents, engineVars, shufflerVars>>
InitPick ==
  /\ EngineNotCalled
  /\ ShufflerUnmounted
  /\ dayEvents \in SeqsUpTo(Scoreboard, MaxEvents)
  /\ picked = <<>>
SpecPick == InitPick /\ [][PickEvent]_vars

\* The clubs the priority list names, as the scoreboards give them.
PriorityClub ==
  [key \in {PRIORITY[k].key : k \in 1..Len(PRIORITY)} |->
     CASE key = "steelers" -> {Team(<<"Pittsburgh", "Steelers">>, "PIT")}
       [] key = "michigan" -> {Team(<<"Michigan", "Wolverines">>, "MICH")}
       [] key = "warriors" -> {Team(<<"Golden", "State", "Warriors">>, "GS")}
       [] key = "valkyries" -> {Team(<<"Golden", "State", "Valkyries">>, "GS")}
       [] key = "cubs" -> {Team(<<"Chicago", "Cubs">>, "CHC"), Team(<<>>, "chc")}
       [] key = "giants" -> {Team(<<"San", "Francisco", "Giants">>, "SF")}]
Involves(entry, k) ==
  /\ entry.leaguePath = PRIORITY[k].league
  /\ \E c \in 1..2 : entry.event.competitions[1].competitors[c] \in PriorityClub[PRIORITY[k].key]
StartsInWindow(entry) ==
  LET start == PacificMinuteOfDay(entry.event.date)
  IN  14 * 60 < start /\ start < 20 * 60
Qualifies(entry) == StartsInWindow(entry) /\ \E k \in 1..Len(PRIORITY) : Involves(entry, k)
Rank(entry) == CHOOSE k \in 1..Len(PRIORITY) :
                 Involves(entry, k) /\ \A j \in 1..(k - 1) : ~Involves(entry, j)

\* C30: pickEventForDay returns null exactly when no event of the day involves
\* a priority team of the matching league and starts strictly between 14:00 and
\* 20:00 Pacific time; otherwise it returns the event whose team has the lowest
\* index in PRIORITY and, among the events of that priority, the earliest start.
C30_PickIsBestQualifyingEvent ==
  picked # <<>> =>
    LET result == picked[1]
        Q == {i \in 1..Len(dayEvents) : Qualifies(dayEvents[i])}
    IN  /\ (result = <<>>) <=> (Q = {})
        /\ Q # {} =>
             \E i \in Q :
               /\ result[1].event = dayEvents[i].event
               /\ result[1].priorityIndex = Rank(dayEvents[i]) - 1
               /\ \A j \in Q :
                    \/ Rank(dayEvents[i]) < Rank(dayEvents[j])
                    \/ /\ Rank(dayEvents[i]) = Rank(dayEvents[j])
                       /\ dayEvents[i].event.date <= dayEvents[j].event.date
\* Two qualifying events in the order the pick reverses: the second has the
\* priority of the first and starts earlier, and it is the one returned.
C30_Witness ==
  /\ picked # <<>> /\ picked[1] # <<>>
  /\ Len(dayEvents) = 2
  /\ Qualifies(dayEvents[1]) /\ Qualifies(dayEvents[2])
  /\ Rank(dayEvents[1]) = Rank(dayEvents[2])
  /\ dayEvents[2].event.date < dayEvents[1].event.date
  /\ picked[1][1].event = dayEvents[2].event

=============================================================================
